---- MODULE Spec2Model ----
(***************************************************************************)
(* A model of rustypath's RPath (src/src/lib.rs): a value wrapping a       *)
(* std::path::PathBuf.  Paths are modelled as on Unix: a path is a         *)
(* sequence of bytes, '/' is the only separator and there are no           *)
(* prefixes.  A byte is written as a one-character string; "xFF" stands    *)
(* for the byte 0xFF, which occurs in no valid UTF-8 text.                 *)
(***************************************************************************)
EXTENDS Integers, Sequences, FiniteSets, TLC

\* Longest receiver path, longest single argument, longest component list.
MaxLen == 4
MaxArgLen == 2
MaxComps == 2

\* The bytes receiver paths are made of, and those arguments are made of.
Alphabet == {"/", ".", "a", "b", "xFF"}

ArgAlphabet == {"/", ".", "a", "xFF"}

Strings(A, n) == UNION {[1..k -> A] : k \in 0..n}

\* Arguments handed to join_multiple, one per list element.
JoinComps == {<<>>, <<"/">>, <<"a">>, <<".", ".">>, <<"xFF">>}

CompLists(n) == UNION {[1..k -> JoinComps] : k \in 0..n}

\* The inputs the calls below draw from.
Paths == Strings(Alphabet, MaxLen)

PathArgs == Strings(ArgAlphabet, MaxArgLen)

CompArgs == CompLists(MaxComps)

Some(v) == [some |-> TRUE, val |-> v]

None == [some |-> FALSE, val |-> <<>>]

Last(s) == s[Len(s)]

(***************************************************************************)
(* std::path as the methods below use it.                                  *)
(***************************************************************************)
RootDir == [kind |-> "RootDir", name |-> <<"/">>]

CurDir == [kind |-> "CurDir", name |-> <<".">>]

ParentDir == [kind |-> "ParentDir", name |-> <<".", ".">>]

Normal(s) == [kind |-> "Normal", name |-> s]

\* Path::has_root / Path::is_absolute on Unix.
HasRoot(p) == Len(p) > 0 /\ p[1] = "/"

\* Components::include_cur_dir: a leading "." counts only when it stands alone
\* or is followed by a separator, and the path has no root.
IncludeCurDir(p) ==
    /\ ~HasRoot(p)
    /\ Len(p) >= 1
    /\ p[1] = "."
    /\ (Len(p) = 1 \/ p[2] = "/")

\* Components::len_before_body.
LenBeforeBody(p) ==
    (IF HasRoot(p) THEN 1 ELSE 0) + (IF IncludeCurDir(p) THEN 1 ELSE 0)

\* Index of the last separator of s, 0 when there is none.
RPosition(s) ==
    LET at == {i \in 1..Len(s) : s[i] = "/"}
    IN  IF at = {} THEN 0 ELSE CHOOSE i \in at : \A j \in at : j <= i

\* Index of the first occurrence of d in s, 0 when there is none.
Position(s, d) ==
    LET at == {i \in 1..Len(s) : s[i] = d}
    IN  IF at = {} THEN 0 ELSE CHOOSE i \in at : \A j \in at : i <= j

\* Components::parse_single_component.
ParseSingleComponent(c) ==
    IF c = <<>> \/ c = <<".">> THEN None
    ELSE IF c = <<".", ".">> THEN Some(ParentDir)
    ELSE Some(Normal(c))

\* Components::parse_next_component_back: the bytes consumed and the component.
ParseNextComponentBack(p) ==
    LET start == LenBeforeBody(p)
        body  == SubSeq(p, start + 1, Len(p))
        i     == RPosition(body)
        comp  == SubSeq(body, i + 1, Len(body))
        extra == IF i = 0 THEN 0 ELSE 1
    IN  [size |-> Len(comp) + extra, comp |-> ParseSingleComponent(comp)]

\* Components::next_back on a fresh iterator: the last component and the bytes
\* left in the iterator.
RECURSIVE NextBack(_)
NextBack(p) ==
    IF Len(p) > LenBeforeBody(p)
    THEN LET r    == ParseNextComponentBack(p)
             rest == SubSeq(p, 1, Len(p) - r.size)
         IN  IF r.comp.some THEN [comp |-> r.comp, rest |-> rest]
             ELSE NextBack(rest)
    ELSE IF HasRoot(p) THEN [comp |-> Some(RootDir), rest |-> <<>>]
    ELSE IF IncludeCurDir(p) THEN [comp |-> Some(CurDir), rest |-> <<>>]
    ELSE [comp |-> None, rest |-> <<>>]

\* Components::trim_right, which as_path applies to what next_back left.
RECURSIVE TrimRight(_)
TrimRight(p) ==
    IF Len(p) > LenBeforeBody(p)
    THEN LET r == ParseNextComponentBack(p)
         IN  IF r.comp.some THEN p
             ELSE TrimRight(SubSeq(p, 1, Len(p) - r.size))
    ELSE p

\* The components of a path, first to last.
RECURSIVE Components(_)
Components(p) ==
    LET nb == NextBack(p)
    IN  IF nb.comp.some THEN Append(Components(nb.rest), nb.comp.val)
        ELSE <<>>

\* PartialEq of PathBuf, which RPath derives: paths are equal when their
\* components are.
PathEq(p, q) == Components(p) = Components(q)

\* Path::file_name.
FileName(p) ==
    LET nb == NextBack(p)
    IN  IF nb.comp.some /\ nb.comp.val.kind = "Normal"
        THEN Some(nb.comp.val.name)
        ELSE None

\* Path::parent.
Parent(p) ==
    LET nb == NextBack(p)
    IN  IF nb.comp.some /\ nb.comp.val.kind \in {"Normal", "CurDir", "ParentDir"}
        THEN Some(TrimRight(nb.rest))
        ELSE None

\* Path::join, that is PathBuf::push on a copy: an absolute argument replaces
\* the path, any other is appended after a separator when one is needed.
PathJoin(p, x) ==
    IF HasRoot(x) THEN x
    ELSE IF Len(p) > 0 /\ Last(p) # "/" THEN p \o <<"/">> \o x
    ELSE p \o x

\* OsStr::to_str: the bytes as text when they are valid UTF-8.
IsUtf8(s) == \A i \in 1..Len(s) : s[i] # "xFF"

ToStr(s) == IF IsUtf8(s) THEN Some(s) ELSE None

\* str::split: the parts of s between occurrences of d, never fewer than one.
RECURSIVE Split(_, _)
Split(s, d) ==
    LET i == Position(s, d)
    IN  IF i = 0 THEN <<s>>
        ELSE <<SubSeq(s, 1, i - 1)>> \o Split(SubSeq(s, i + 1, Len(s)), d)

(***************************************************************************)
(* The file system the process sees.  A location is the list of names from *)
(* the root; a node is a directory, a regular file, or a symbolic link to  *)
(* a location that is not itself a link.  cwd is the working directory.    *)
(***************************************************************************)
Dir == [kind |-> "dir", target |-> <<>>]

File == [kind |-> "file", target |-> <<>>]

Link(t) == [kind |-> "link", target |-> t]

FsTree ==
    [nodes |-> (<<>> :> Dir) @@ (<< <<"a">> >> :> Dir)
                 @@ (<< <<"a">>, <<".", "a">> >> :> File)
                 @@ (<< <<"xFF">> >> :> Link(<< <<"a">> >>)),
     cwd   |-> << <<"a">> >>]

FsBare == [nodes |-> (<<>> :> Dir), cwd |-> <<>>]

FsChoices == {FsTree, FsBare}

\* The names of a path as the OS walks them: the non-empty pieces between
\* separators ("." and ".." included).
Names(p) == SelectSeq(Split(p, "/"), LAMBDA n : n # <<>>)

\* The OS's path walk from location cur over names[i..]: "." stays, ".." goes
\* up (the root is its own parent), a name must exist; a link is followed
\* unless it is the last name and follow is FALSE; only a directory can be
\* walked through, and mustDir asks the end to be one.
RECURSIVE Walk(_, _, _, _, _, _)
Walk(fs, cur, names, i, follow, mustDir) ==
    IF i > Len(names)
    THEN IF mustDir /\ fs.nodes[cur].kind # "dir" THEN None ELSE Some(cur)
    ELSE IF fs.nodes[cur].kind # "dir" THEN None
    ELSE LET n    == names[i]
             cand == Append(cur, n)
             last == (i = Len(names))
         IN  IF n = <<".">> THEN Walk(fs, cur, names, i + 1, follow, mustDir)
             ELSE IF n = <<".", ".">>
             THEN Walk(fs, SubSeq(cur, 1, Len(cur) - 1), names, i + 1, follow,
                       mustDir)
             ELSE IF cand \notin DOMAIN fs.nodes THEN None
             ELSE IF fs.nodes[cand].kind = "link" /\ (~last \/ follow \/ mustDir)
             THEN Walk(fs, fs.nodes[cand].target, names, i + 1, follow, mustDir)
             ELSE Walk(fs, cand, names, i + 1, follow, mustDir)

\* Where a path leads, if anywhere; the empty path leads nowhere.
Resolve(fs, p, follow) ==
    IF p = <<>> THEN None
    ELSE Walk(fs, IF HasRoot(p) THEN <<>> ELSE fs.cwd, Names(p), 1, follow,
              Last(p) = "/")

\* The absolute path that spells a location.
RECURSIVE Render(_)
Render(loc) ==
    IF loc = <<>> THEN <<"/">>
    ELSE IF Len(loc) = 1 THEN <<"/">> \o loc[1]
    ELSE Render(SubSeq(loc, 1, Len(loc) - 1)) \o <<"/">> \o Last(loc)

\* Path::canonicalize: the canonical absolute path, or an error when the path
\* does not lead to a node or the OS refuses (oserr).
Canonicalize(fs, p, oserr) ==
    LET r == Resolve(fs, p, TRUE)
    IN  IF ~oserr /\ r.some THEN Some(Render(r.val)) ELSE None

\* The kind of node fs::metadata (follow) or fs::symlink_metadata finds.
KindAt(fs, p, follow) ==
    LET r == Resolve(fs, p, follow)
    IN  IF r.some THEN fs.nodes[r.val].kind ELSE "absent"

(***************************************************************************)
(* RPath's methods as functions of the wrapped path.  A method either      *)
(* returns a value or ends the process after printing a diagnostic.        *)
(***************************************************************************)
Ok(v) == [exit |-> FALSE, val |-> v, diag |-> ""]

Exit(msg) == [exit |-> TRUE, val |-> <<>>, diag |-> msg]

new == <<>>

from(x) == x

\* join with the separator forgotten.
join_no_separator(p, x) == IF HasRoot(x) THEN x ELSE p \o x

join(p, x) == PathJoin(p, x)

\* join_multiple that joins each component onto the old path, so that only the
\* last one stays.
join_multiple_last_only(p, ps) ==
    IF ps = <<>> THEN p ELSE PathJoin(p, Last(ps))

RECURSIVE join_multiple_from(_, _, _)
join_multiple_from(acc, ps, i) ==
    IF i > Len(ps) THEN acc
    ELSE join_multiple_from(PathJoin(acc, ps[i]), ps, i + 1)

\* The receiver's path after join_multiple(ps).
join_multiple(p, ps) == join_multiple_from(p, ps, 1)

\* basename taken as whatever follows the last separator.
basename_last_piece(p) ==
    LET piece == Last(Split(p, "/"))
    IN  IF p = <<>> THEN Exit("Failed to get basename.")
        ELSE IF ToStr(piece).some THEN Ok(piece)
        ELSE Exit("Failed to convert basename from OsStr to str.")

basename(p) ==
    LET f == FileName(p)
    IN  IF f.some
        THEN IF ToStr(f.val).some THEN Ok(ToStr(f.val).val)
             ELSE Exit("Failed to convert basename from OsStr to str.")
        ELSE Exit("Failed to get basename.")

dirname(p) ==
    LET d == Parent(p)
    IN  IF d.some THEN Ok(d.val) ELSE Exit("Failed to get dirname.")

\* with_basename that joins onto the receiver instead of its parent.
with_basename_onto_self(p, filename) == Ok(PathJoin(p, filename))

with_basename(p, filename) ==
    LET d == dirname(p)
    IN  IF d.exit THEN d ELSE Ok(join(d.val, filename))

\* with_dirname with the two sides of the join swapped.
with_dirname_swapped(p, dir) ==
    LET f == FileName(p)
    IN  IF f.some /\ IsUtf8(f.val) THEN Ok(PathJoin(f.val, dir))
        ELSE Exit("Failed to get basename.")

with_dirname(p, dir) ==
    LET b == basename(p)
    IN  IF b.exit THEN b ELSE Ok(join(from(dir), b.val))

\* extension that takes the part after the first "." instead of the last.
extension_first_dot(p) ==
    LET f == FileName(p)
    IN  IF f.some /\ IsUtf8(f.val)
        THEN IF Len(Split(f.val, ".")) >= 2 THEN Ok(Split(f.val, ".")[2])
             ELSE Ok(f.val)
        ELSE Exit("Failed to get basename.")

\* extension that gives up on a basename without a ".".
extension_strict(p) ==
    LET f == FileName(p)
    IN  IF ~f.some THEN Exit("Failed to get basename.")
        ELSE IF ~IsUtf8(f.val)
        THEN Exit("Failed to convert basename from OsStr to str.")
        ELSE IF Len(Split(f.val, ".")) >= 2 THEN Ok(Last(Split(f.val, ".")))
        ELSE Exit("Filename extension not found.")

extension(p) ==
    LET b == basename(p)
    IN  IF b.exit THEN b
        ELSE LET parts == Split(b.val, ".")
             IN  IF Len(parts) >= 2 THEN Ok(Last(parts))
                 ELSE IF Len(parts) = 1 THEN basename(p)
                 ELSE Exit("Filename extension not found.")

convert_to_pathbuf(p) == p

\* expand that falls back to the default (empty) path.
expand_or_default(fs, p, oserr) ==
    LET c == Canonicalize(fs, p, oserr)
    IN  IF c.some THEN c.val ELSE <<>>

expand(fs, p, oserr) ==
    LET c == Canonicalize(fs, p, oserr)
    IN  IF c.some THEN c.val ELSE convert_to_pathbuf(p)

\* clear that pops the last component only.
clear_pop(p) == IF Parent(p).some THEN Parent(p).val ELSE p

clear(p) == <<>>

\* Invalid bytes become U+FFFD ("uFFFD") when the path is not valid UTF-8.
convert_to_string(p) ==
    IF IsUtf8(p) THEN p
    ELSE [i \in 1..Len(p) |-> IF p[i] = "xFF" THEN "uFFFD" ELSE p[i]]

exists(fs, p) == KindAt(fs, p, TRUE) # "absent"

is_dir(fs, p) == KindAt(fs, p, TRUE) = "dir"

is_file(fs, p) == KindAt(fs, p, TRUE) = "file"

is_symlink(fs, p) == KindAt(fs, p, FALSE) = "link"

is_absolute(p) == HasRoot(p)

is_relative(p) == ~HasRoot(p)

(***************************************************************************)
(* One RPath, the receiver, and the caller that invokes its methods.       *)
(*   path  the receiver's wrapped path (self.path)                         *)
(*   pc    "ready" between calls, "returned" when a call has returned and  *)
(*         its result is at hand, "exited" once a call ended the process   *)
(*   op, arg, old   the call made last, its argument, and the receiver's   *)
(*         path when it was made                                           *)
(*   ret, diag      what the call returned, what it printed on stderr      *)
(*   env   the file system and OS verdict a call that consults them saw    *)
(***************************************************************************)
VARIABLES path, pc, op, arg, old, ret, diag, env

vars == <<path, pc, op, arg, old, ret, diag, env>>

NoEnv == [fs |-> FsBare, oserr |-> FALSE]

Envs == [fs : FsChoices, oserr : BOOLEAN]

Seen(fs) == [fs |-> fs, oserr |-> FALSE]

\* RPath::from(s) for any path s, RPath::new() among them.
Init ==
    /\ path \in {from(s) : s \in Paths}
    /\ pc = "ready"
    /\ op = "none"
    /\ arg = <<>>
    /\ old = <<>>
    /\ ret = <<>>
    /\ diag = ""
    /\ env = NoEnv

\* A call of method name with argument a that leaves the receiver at np and
\* returns or exits as r says.
Call(name, a, np, r, e) ==
    /\ op' = name
    /\ arg' = a
    /\ old' = path
    /\ path' = np
    /\ ret' = r.val
    /\ diag' = r.diag
    /\ pc' = IF r.exit THEN "exited" ELSE "returned"
    /\ env' = e

\* join that pushes onto the receiver itself.
DoJoinInPlace ==
    /\ pc = "ready"
    /\ \E x \in PathArgs :
           Call("join", x, PathJoin(path, x), Ok(PathJoin(path, x)), NoEnv)

DoJoin ==
    /\ pc = "ready"
    /\ \E x \in PathArgs :
           Call("join", x, path, Ok(join(path, x)), NoEnv)

DoJoinMultiple ==
    /\ pc = "ready"
    /\ \E ps \in CompArgs :
           /\ Len(join_multiple(path, ps)) <= MaxLen
           /\ Call("join_multiple", ps, join_multiple(path, ps), Ok(<<>>), NoEnv)

DoBasename ==
    /\ pc = "ready"
    /\ Call("basename", <<>>, path, basename(path), NoEnv)

DoWithBasename ==
    /\ pc = "ready"
    /\ \E x \in PathArgs :
           Call("with_basename", x, path, with_basename(path, x), NoEnv)

DoDirname ==
    /\ pc = "ready"
    /\ Call("dirname", <<>>, path, dirname(path), NoEnv)

DoWithDirname ==
    /\ pc = "ready"
    /\ \E x \in PathArgs :
           Call("with_dirname", x, path, with_dirname(path, x), NoEnv)

DoExtension ==
    /\ pc = "ready"
    /\ Call("extension", <<>>, path, extension(path), NoEnv)

DoExpand ==
    /\ pc = "ready"
    /\ \E e \in Envs :
           Call("expand", <<>>, path, Ok(expand(e.fs, path, e.oserr)), e)

DoClear ==
    /\ pc = "ready"
    /\ Call("clear", <<>>, clear(path), Ok(<<>>), NoEnv)

DoConvertToPathbuf ==
    /\ pc = "ready"
    /\ Call("convert_to_pathbuf", <<>>, path, Ok(convert_to_pathbuf(path)), NoEnv)

DoConvertToString ==
    /\ pc = "ready"
    /\ Call("convert_to_string", <<>>, path, Ok(convert_to_string(path)), NoEnv)

DoExists ==
    /\ pc = "ready"
    /\ \E fs \in FsChoices :
           Call("exists", <<>>, path, Ok(exists(fs, path)), Seen(fs))

DoIsDir ==
    /\ pc = "ready"
    /\ \E fs \in FsChoices :
           Call("is_dir", <<>>, path, Ok(is_dir(fs, path)), Seen(fs))

DoIsFile ==
    /\ pc = "ready"
    /\ \E fs \in FsChoices :
           Call("is_file", <<>>, path, Ok(is_file(fs, path)), Seen(fs))

DoIsSymlink ==
    /\ pc = "ready"
    /\ \E fs \in FsChoices :
           Call("is_symlink", <<>>, path, Ok(is_symlink(fs, path)), Seen(fs))

DoIsAbsolute ==
    /\ pc = "ready"
    /\ Call("is_absolute", <<>>, path, Ok(is_absolute(path)), NoEnv)

DoIsRelative ==
    /\ pc = "ready"
    /\ Call("is_relative", <<>>, path, Ok(is_relative(path)), NoEnv)

\* The caller is done with the returned value and turns to the next call.
Drop ==
    /\ pc = "returned"
    /\ pc' = "ready"
    /\ op' = "none"
    /\ arg' = <<>>
    /\ old' = <<>>
    /\ ret' = <<>>
    /\ diag' = ""
    /\ env' = NoEnv
    /\ UNCHANGED path

Next ==
    \/ DoJoin
    \/ DoJoinMultiple
    \/ DoBasename
    \/ DoWithBasename
    \/ DoDirname
    \/ DoWithDirname
    \/ DoExtension
    \/ DoExpand
    \/ DoClear
    \/ DoConvertToPathbuf
    \/ DoConvertToString
    \/ DoExists
    \/ DoIsDir
    \/ DoIsFile
    \/ DoIsSymlink
    \/ DoIsAbsolute
    \/ DoIsRelative
    \/ Drop

Spec == Init /\ [][Next]_vars

(***************************************************************************)
(* Properties.  A call is "made" in every state with pc # "ready": op, arg *)
(* and old then describe it, and ret, diag and path its outcome.           *)
(***************************************************************************)
Made(name) == op = name /\ pc # "ready"

\* The named pieces of a path: what lies between separators, leaving out the
\* empty pieces and the "." pieces.
Segs(p) == SelectSeq(Split(p, "/"), LAMBDA n : n # <<>> /\ n # <<".">>)

Front(s) == SubSeq(s, 1, Len(s) - 1)

\* A single ordinary segment: non-empty, no separator, neither "." nor "..".
Ordinary(c) ==
    /\ c # <<>>
    /\ \A i \in 1..Len(c) : c[i] # "/"
    /\ c # <<".">>
    /\ c # <<".", ".">>

\* C1: with_basename(x) equals dirname().join(x) whenever the receiver has a
\* parent, and ends the process exactly as dirname() does when it has none.
C1_WithBasenameIsDirnameJoin ==
    Made("with_basename") =>
        IF dirname(old).exit
        THEN pc = "exited" /\ diag = dirname(old).diag
        ELSE pc = "returned" /\ PathEq(ret, join(dirname(old).val, arg))

C1_Witness ==
    /\ Made("with_basename")
    /\ pc = "returned"
    /\ FileName(old).some
    /\ Ordinary(arg)
    /\ FileName(old).val # arg
    /\ Len(Components(old)) >= 2

\* The part of b after its final ".", or b itself when it holds no ".".
AfterFinalDot(b) ==
    LET at == {i \in 1..Len(b) : b[i] = "."}
    IN  IF at = {} THEN b
        ELSE SubSeq(b, (CHOOSE i \in at : \A j \in at : j <= i) + 1, Len(b))

\* C2: when the basename is defined, extension() returns the part of it after
\* its final ".", and the whole basename when it holds no ".".
C2_ExtensionAfterFinalDot ==
    (Made("extension") /\ ~basename(old).exit) =>
        pc = "returned" /\ ret = AfterFinalDot(basename(old).val)

C2_Witness ==
    /\ Made("extension")
    /\ pc = "returned"
    /\ Len(Split(basename(old).val, ".")) >= 3
    /\ ret # <<>>

\* p.join(c1).join(c2)...join(cn), by induction on the number of joins.
JoinedInTurn(p, cs) ==
    LET f[i \in 0..Len(cs)] == IF i = 0 THEN p ELSE join(f[i - 1], cs[i])
    IN  f[Len(cs)]

\* C3: after join_multiple([c1..cn]) the receiver is old.join(c1)...join(cn),
\* the joins applied in sequence order; with no components it is unchanged.
C3_JoinMultipleIsJoinsInTurn ==
    Made("join_multiple") =>
        /\ pc = "returned"
        /\ path = JoinedInTurn(old, arg)
        /\ (arg = <<>> => path = old)

C3_Witness ==
    /\ Made("join_multiple")
    /\ Len(arg) = 2
    /\ arg[1] # arg[2]
    /\ Ordinary(arg[1])
    /\ Ordinary(arg[2])
    /\ old # <<>>

\* C4: when the basename is defined, with_dirname(dir) equals
\* from(dir).join(basename()): the components of dir followed by the
\* receiver's final segment.
C4_WithDirnameIsFromJoinBasename ==
    (Made("with_dirname") /\ ~basename(old).exit) =>
        /\ pc = "returned"
        /\ PathEq(ret, join(from(arg), basename(old).val))
        /\ Components(ret) = Append(Components(arg), Normal(Last(Segs(old))))

\* from("/b/a").with_dirname("/a") equals from("/a/a").
C4_Witness ==
    /\ Made("with_dirname")
    /\ old = <<"/", "b", "/", "a">>
    /\ arg = <<"/", "a">>
    /\ pc = "returned"
    /\ PathEq(ret, <<"/", "a", "/", "a">>)

Mutators == {"join_multiple", "clear"}

\* C5: only join_multiple and clear change the receiver's stored path; every
\* other call leaves it as it was.
C5_OnlyMutatorsChangeReceiver == [][path' # path => op' \in Mutators]_vars

C5_Witness ==
    /\ Made("join")
    /\ pc = "returned"
    /\ path = old
    /\ ~PathEq(ret, path)

\* q is a canonical absolute path of fs: rooted, free of ".", ".." and doubled
\* or trailing separators, and naming a node that is not a link.
IsCanonical(fs, q) ==
    /\ HasRoot(q)
    /\ Resolve(fs, q, FALSE).some
    /\ Render(Resolve(fs, q, FALSE).val) = q
    /\ KindAt(fs, q, FALSE) # "link"

\* C6: expand() always returns: the canonical absolute path when resolution
\* succeeds, the receiver's own path when it fails.
C6_ExpandNeverFails ==
    Made("expand") =>
        /\ pc = "returned"
        /\ diag = ""
        /\ IF ~env.oserr /\ Resolve(env.fs, old, TRUE).some
           THEN /\ exists(env.fs, old)
                /\ IsCanonical(env.fs, ret)
                /\ Resolve(env.fs, ret, TRUE) = Resolve(env.fs, old, TRUE)
           ELSE ret = old

C6_Witness ==
    /\ Made("expand")
    /\ pc = "returned"
    /\ ~HasRoot(old)
    /\ HasRoot(ret)

\* The path has no parent: it is empty or nothing but the root.
NoParent(p) == p = <<>> \/ (HasRoot(p) /\ Segs(p) = <<>>)

\* C7 as stated: basename() ends the process exactly when the path is empty,
\* is the root, or its final segment is not valid text; dirname() exactly
\* when the path has no parent.
C7_AsStated ==
    /\ Made("basename") =>
           (pc = "exited" <=>
               \/ old = <<>>
               \/ (HasRoot(old) /\ Segs(old) = <<>>)
               \/ (Segs(old) # <<>> /\ ~IsUtf8(Last(Segs(old)))))
    /\ Made("dirname") => (pc = "exited" <=> NoParent(old))

\* The path has no final name: it has no named piece at all (it is empty, the
\* root, or made of "." pieces only), or its last named piece is "..".
NoFinalName(p) == Segs(p) = <<>> \/ Last(Segs(p)) = <<".", ".">>

\* C7, amended: basename() ends the process exactly when the path has no final
\* name or that name is not valid text, and otherwise returns the name;
\* dirname() ends it exactly when the path has no parent, and otherwise
\* returns the path without its last component.
C7_BasenameDirnameFailure ==
    /\ Made("basename") =>
           /\ pc = "exited" <=> (NoFinalName(old) \/ ~IsUtf8(Last(Segs(old))))
           /\ pc = "exited" =>
                  diag = IF NoFinalName(old)
                         THEN "Failed to get basename."
                         ELSE "Failed to convert basename from OsStr to str."
           /\ pc = "returned" => ret = Last(Segs(old))
    /\ Made("dirname") =>
           /\ pc = "exited" <=> NoParent(old)
           /\ pc = "exited" => diag = "Failed to get dirname."
           /\ pc = "returned" => Components(ret) = Front(Components(old))

C7_Witness ==
    /\ Made("basename")
    /\ pc = "exited"
    /\ old # <<>>
    /\ ~HasRoot(old)
    /\ IsUtf8(old)

\* C8 as stated: when the path has no basename to speak of, extension() ends
\* the process with the diagnostic "extension not found."
C8_AsStated ==
    (Made("extension") /\ (~FileName(old).some \/ FileName(old).val = <<>>)) =>
        /\ pc = "exited"
        /\ diag \in {"extension not found.", "Filename extension not found."}

\* C8, amended: extension() ends the process exactly when basename() does,
\* and with basename()'s diagnostic; a basename that is defined is never
\* empty, and "Filename extension not found." is never printed.
C8_ExtensionFailsAsBasename ==
    Made("extension") =>
        /\ pc = "exited" <=> basename(old).exit
        /\ pc = "exited" => diag = basename(old).diag
        /\ pc = "returned" => basename(old).val # <<>>
        /\ diag # "Filename extension not found."

C8_Witness ==
    /\ Made("extension")
    /\ pc = "exited"
    /\ old = <<>>
    /\ diag = "Failed to get basename."

\* C9: after clear() the receiver equals new().
C9_ClearedEqualsNew ==
    Made("clear") => pc = "returned" /\ PathEq(path, new) /\ path = new

C9_Witness ==
    /\ Made("clear")
    /\ pc = "returned"
    /\ Len(Components(old)) >= 2

\* C10 as stated: for every ordinary segment c, p.join(c).basename() is c and
\* p.join(c).dirname() equals p, neither call ending the process.
C10_AsStated ==
    (Made("join") /\ Ordinary(arg)) =>
        /\ ~basename(ret).exit
        /\ basename(ret).val = arg
        /\ ~dirname(ret).exit
        /\ PathEq(dirname(ret).val, old)

\* C10, amended: the same for every ordinary segment c that is valid text.
C10_JoinThenDecompose ==
    (Made("join") /\ Ordinary(arg) /\ IsUtf8(arg)) =>
        /\ ~basename(ret).exit
        /\ basename(ret).val = arg
        /\ ~dirname(ret).exit
        /\ PathEq(dirname(ret).val, old)

C10_Witness ==
    /\ Made("join")
    /\ pc = "returned"
    /\ Ordinary(arg)
    /\ IsUtf8(arg)
    /\ Len(Components(old)) >= 2
    /\ old # dirname(ret).val

====
